---- MODULE Spec2Model ----
(***************************************************************************)
(* Caption segmentation of redditVideoMaker (src/captionGen.py).           *)
(*                                                                         *)
(* group_words_into_captions is modelled as a state machine: one action    *)
(* for the prologue (font load, width limit, empty result list), one for   *)
(* a whole iteration of the while loop, one for the loop exit and return,  *)
(* and one for the caller invoking the function again on the same input.   *)
(* main is modelled from the transcription result on: the empty check, the *)
(* comments_start filter, the call of group_words_into_captions, one       *)
(* action per iteration of create_caption_clips (create_text_image         *)
(* included), and the composition. An exception nobody catches ends the    *)
(* run in "raised".                                                        *)
(* The ElevenLabs wrapper (src/TTS/elevenlabs.py) is modelled as one       *)
(* object with one action per method call, the whole of run included:      *)
(* lazy initialization, the voice cache, the request and its fallback.     *)
(*                                                                         *)
(* Times are integers in ticks of 0.05 s (0.3 s = 6, 1.5 s = 30).          *)
(* max_text_width_ratio is an integer percentage (0.9 = 90), and widths    *)
(* compared against video_width * ratio are scaled by 100.                 *)
(* A string is a sequence of one-character strings.                        *)
(***************************************************************************)
EXTENDS Integers, Sequences, FiniteSets

\* ------------------------------------------------------------ bounds

\* Longest enumerated transcript, in words.
MaxWords == 3

\* Most method calls made on one elevenlabs object.
MaxCalls == 4

\* ------------------------------------------------------------ strings

SPACE == " "

an == <<"a", "n">>
gero == <<"g", "e", "r", "o">>
ed == <<"e", "d">>

\* A 20-glyph word of wide glyphs: 2000 px at the configured size.
wideWord == [k \in 1..20 |-> "W"]

\* Words the transcriber may emit: non-empty, free of whitespace.
Words == {an, gero}

\* " ".join(ws) for a sequence of strings ws.
RECURSIVE Join(_)
Join(ws) ==
    IF Len(ws) = 0 THEN <<>>
    ELSE IF Len(ws) = 1 THEN ws[1]
    ELSE ws[1] \o <<SPACE>> \o Join(Tail(ws))

\* ------------------------------------------------------------ measurer

\* Font size passed by main to group_words_into_captions.
FontSize == 110

\* Advance width in px of one glyph: the TrueType face at FontSize, or the
\* small built-in bitmap face ImageFont.load_default() returns.
GlyphAdvance(f, ch) ==
    IF f = "default" THEN 6
    ELSE IF ch = SPACE THEN 30
    ELSE IF ch = "W" THEN 100
    ELSE 60

RECURSIVE SumAdvance(_, _, _)
SumAdvance(f, text, k) ==
    IF k > Len(text) THEN 0
    ELSE GlyphAdvance(f, text[k]) + SumAdvance(f, text, k + 1)

\* font.getbbox(text)[2] - font.getbbox(text)[0], or font.getsize(text)[0]
\* on an old PIL: a function of the font and the string alone.
TextWidth(f, text) == SumAdvance(f, text, 1)

\* What font.getsize(text)[0] adds to the bounding-box width: the offset
\* of the first glyph's left edge, which getsize counts and
\* bbox[2] - bbox[0] does not.
LeftBearing(f) == IF f = "default" THEN 0 ELSE 4

\* ------------------------------------------------------------ inputs

Gaps == {1, 7}
Durs == {0, 4}

Choice == [word : Words, gap : Gaps, dur : Durs]

\* The transcript a sequence of choices describes: each word starts gap
\* ticks after the previous word ended and lasts dur ticks.
RECURSIVE BuildFrom(_, _, _)
BuildFrom(cs, k, t) ==
    IF k > Len(cs) THEN <<>>
    ELSE LET s == t + cs[k].gap
             e == s + cs[k].dur
         IN  <<[word |-> cs[k].word, start |-> s, end |-> e]>>
                 \o BuildFrom(cs, k + 1, e)

EnumeratedInputs ==
    { BuildFrom(cs, 1, 0) : cs \in UNION { [1..n -> Choice] : n \in 0..MaxWords } }

\* [("an",0.0,0.2),("gero",0.25,0.45),("ed",3.00,3.20)]
ScenarioA ==
    << [word |-> an, start |-> 0, end |-> 4],
       [word |-> gero, start |-> 5, end |-> 9],
       [word |-> ed, start |-> 60, end |-> 64] >>

\* One word that is 2000 px wide on its own.
ScenarioB == << [word |-> wideWord, start |-> 0, end |-> 4] >>

Inputs == EnumeratedInputs \cup {ScenarioA, ScenarioB}

\* Two words whose time ranges overlap.
ScenarioOverlap ==
    << [word |-> an, start |-> 0, end |-> 4],
       [word |-> gero, start |-> 2, end |-> 6] >>

\* What transcribe_audio may hand to main.
MainInputs == Inputs \cup {ScenarioOverlap}

VideoWidths == {400, 1000}
Ratios == {45, 90}
\* (pause_threshold, max_duration_per_caption): the defaults and a tight pair.
Timings == { <<6, 30>>, <<1, 5>> }

\* --max_text_width_ratio as main receives it: argparse takes any float, so
\* 0 and 1.5 arrive as well as values in (0, 1].
MainRatios == {0, 45, 90, 150}
MainVideoWidths == {1000}
VideoHeights == {1920}
\* --comments_start in ticks as <<t>>; <<>> is None, the option not given.
CommentsStarts == {<<>>, <<8>>, <<100>>}
\* How Pillow measures: font.getbbox works; or it is missing and
\* font.getsize works (an old Pillow); or measuring raises an exception
\* other than AttributeError.
Measurers == {"getbbox", "getsize", "raises"}

\* ------------------------------------------------------------ state

VARIABLES
    word_timings,               \* argument: the transcript
    video_width,                \* argument
    max_text_width_ratio,       \* argument, in percent
    pause_threshold,            \* argument, in ticks
    max_duration_per_caption,   \* argument, in ticks
    font_loadable,              \* environment: ImageFont.truetype succeeds
    measurer,                   \* environment: one of Measurers
    pc,                         \* "idle", "load_font", "loop", "done", "raised"
    font,                       \* local: "none", "truetype", "default"
    max_text_width,             \* local: video_width * ratio (x100)
    i,                          \* local: cursor, 0-based
    grouped_captions,           \* local, then the returned list
    caption_words,              \* current_caption_words of each emitted caption
    debug_log,                  \* the grouping decisions logging.debug reports
    getbbox_calls,              \* strings measured to decide a join
    prev_return,                \* <<list>> the previous call returned, if any
    main_pc,                    \* position in main; "idle" when main is not run
    transcribed,                \* what transcribe_audio returned
    comments_start_time,        \* argument of main
    video_height,               \* video.h
    caption_rendered_height,    \* local of create_caption_clips
    caption_clips,              \* local of create_caption_clips, then of main
    composed,                   \* the clip lists handed to CompositeVideoClip
    main_log,                   \* what main logged about the run's outcome
    client_ready,               \* elevenlabs: self.client is not None
    current_voice,              \* elevenlabs: self.current_voice, <<>> for None
    history                     \* elevenlabs: one record per method call made

\* The state of main and create_caption_clips.
mainv == << main_pc, transcribed, comments_start_time, video_height,
            caption_rendered_height, caption_clips, composed, main_log >>

\* The state of the elevenlabs object and the calls made on it.
voicev == << client_ready, current_voice, history >>

\* elevenlabs.__init__: no client, no cached voice.
VoiceConstructed ==
    /\ client_ready = FALSE
    /\ current_voice = <<>>
    /\ history = <<>>

vars == << word_timings, video_width, max_text_width_ratio, pause_threshold,
           max_duration_per_caption, font_loadable, measurer, pc, font,
           max_text_width, i, grouped_captions, caption_words, debug_log,
           getbbox_calls, prev_return, mainv, voicev >>

args == << word_timings, video_width, max_text_width_ratio, pause_threshold,
           max_duration_per_caption, font_loadable, measurer >>

\* No earlier call has returned.
NoReturn == <<>>

Init ==
    /\ word_timings \in Inputs
    /\ video_width \in VideoWidths
    /\ max_text_width_ratio \in Ratios
    /\ \E t \in Timings :
          /\ pause_threshold = t[1]
          /\ max_duration_per_caption = t[2]
    /\ font_loadable \in BOOLEAN
    /\ measurer = "getbbox"
    /\ main_pc = "idle"
    /\ transcribed = <<>>
    /\ comments_start_time = <<>>
    /\ video_height = 0
    /\ caption_rendered_height = 0
    /\ caption_clips = <<>>
    /\ composed = <<>>
    /\ main_log = <<>>
    /\ pc = "load_font"
    /\ font = "none"
    /\ max_text_width = 0
    /\ i = 0
    /\ grouped_captions = <<>>
    /\ caption_words = <<>>
    /\ debug_log = <<>>
    /\ getbbox_calls = <<>>
    /\ prev_return = NoReturn
    /\ VoiceConstructed

\* ------------------------------------------------------------ the function

\* try: ImageFont.truetype(...) except: ImageFont.load_default()
LoadedFont == IF font_loadable THEN "truetype" ELSE "default"

\* max_text_width = video_width * max_text_width_ratio
MaxTextWidth == video_width * max_text_width_ratio

\* Variant: the result list of the previous call is reused.
StaleCaptions == grouped_captions

\* grouped_captions = []
FreshCaptions == <<>>

\* Prologue of group_words_into_captions.
LoadFont ==
    /\ pc = "load_font"
    /\ font' = LoadedFont
    /\ max_text_width' = MaxTextWidth
    /\ grouped_captions' = FreshCaptions
    /\ caption_words' = <<>>
    /\ debug_log' = <<>>
    /\ getbbox_calls' = <<>>
    /\ i' = 0
    /\ pc' = "loop"
    /\ UNCHANGED << voicev, args, prev_return, mainv >>

\* Variant: the loop runs once more than there are words.
LoopConditionInclusive == i <= Len(word_timings)

\* while i < len(word_timings)
LoopCondition == i < Len(word_timings)

\* Variant: the operands of the pause test are swapped.
PauseBreakSwapped(next_word, current_caption_end) ==
    current_caption_end - next_word.start > pause_threshold

\* next_word['start'] - current_caption_end > pause_threshold
PauseBreak(next_word, current_caption_end) ==
    next_word.start - current_caption_end > pause_threshold

\* Variant: the span is taken to the next word's start, not its end.
DurationBreakToStart(next_word, current_caption_start) ==
    next_word.start - current_caption_start > max_duration_per_caption

\* (next_word['end'] - current_caption_start) > max_duration_per_caption
DurationBreak(next_word, current_caption_start) ==
    next_word.end - current_caption_start > max_duration_per_caption

\* Variant: the text is compared with the whole frame width.
FitsFrame(text_width) == text_width <= video_width

\* text_width <= max_text_width
Fits(text_width) == text_width * 100 <= max_text_width

\* text_width as lines 123-128 compute it with the font held: the
\* bounding-box width, or getsize's width when getbbox is missing.
MeasuredWidth(text) ==
    IF measurer = "getsize" THEN TextWidth(font, text) + LeftBearing(font)
    ELSE TextWidth(font, text)

\* Variant: the duration limit is tested before the pause.
DecisionDurationFirst(k) ==
    LET cur == word_timings[k + 1]
    IN  IF ~(k + 1 < Len(word_timings)) THEN "last"
        ELSE LET next_word == word_timings[k + 2]
             IN  IF DurationBreak(next_word, cur.start) THEN "duration"
                 ELSE IF PauseBreak(next_word, cur.end) THEN "pause"
                 ELSE IF Fits(MeasuredWidth(Join(<<cur.word, next_word.word>>)))
                      THEN "added"
                 ELSE "width"

\* Variant: only the next word is measured, not the joined text.
DecisionMeasuresNextOnly(k) ==
    LET cur == word_timings[k + 1]
    IN  IF ~(k + 1 < Len(word_timings)) THEN "last"
        ELSE LET next_word == word_timings[k + 2]
             IN  IF PauseBreak(next_word, cur.end) THEN "pause"
                 ELSE IF DurationBreak(next_word, cur.start) THEN "duration"
                 ELSE IF Fits(MeasuredWidth(next_word.word))
                      THEN "added"
                 ELSE "width"

\* The branch one iteration takes at cursor k (0-based): "last" when no
\* word follows, else the first of "pause", "duration" that fires, else
\* "added" or "width" by the measured width of the two words joined.
Decision(k) ==
    LET cur == word_timings[k + 1]
    IN  IF ~(k + 1 < Len(word_timings)) THEN "last"
        ELSE LET next_word == word_timings[k + 2]
             IN  IF PauseBreak(next_word, cur.end) THEN "pause"
                 ELSE IF DurationBreak(next_word, cur.start) THEN "duration"
                 ELSE IF Fits(MeasuredWidth(Join(<<cur.word, next_word.word>>)))
                      THEN "added"
                 ELSE "width"

\* Variant: words keep being added while the join test passes, with no
\* two-word ceiling.
CaptionWordsUncapped(k) ==
    IF Decision(k) = "added"
    THEN IF k + 2 < Len(word_timings)
         THEN << word_timings[k + 1], word_timings[k + 2], word_timings[k + 3] >>
         ELSE << word_timings[k + 1], word_timings[k + 2] >>
    ELSE << word_timings[k + 1] >>

\* current_caption_words when the caption is emitted.
CaptionWords(k) ==
    IF Decision(k) = "added"
    THEN << word_timings[k + 1], word_timings[k + 2] >>
    ELSE << word_timings[k + 1] >>

\* Variant: current_caption_end is not updated when a word is added.
CaptionEndStale(k) == word_timings[k + 1].end

\* current_caption_end when the caption is emitted.
CaptionEnd(k) ==
    IF Decision(k) = "added" THEN word_timings[k + 2].end
    ELSE word_timings[k + 1].end

\* The dict appended to grouped_captions.
Caption(k) ==
    [ word  |-> Join([n \in 1..Len(CaptionWords(k)) |-> CaptionWords(k)[n].word]),
      start |-> word_timings[k + 1].start,
      end   |-> CaptionEnd(k) ]

\* Variant: the cursor always moves by one.
AdvanceByOne(k) == k + 1

\* Variant: the cursor always moves by two.
AdvanceByTwo(k) == k + 2

\* i += len(current_caption_words)
Advance(k) == k + Len(CaptionWords(k))

\* Variant: no except clause, so a missing getbbox raises too.
MeasurementRaisesUncaught == measurer # "getbbox"

\* The try/except around font.getbbox catches AttributeError alone: any
\* other exception leaves the function.
MeasurementRaises == measurer = "raises"

\* One iteration of the while loop. The second measurement of the emitted
\* text feeds a log line only and leaves no state behind.
GroupStep ==
    /\ pc = "loop"
    /\ LoopCondition
    /\ ~MeasurementRaises
    /\ grouped_captions' = Append(grouped_captions, Caption(i))
    /\ caption_words' = Append(caption_words, CaptionWords(i))
    /\ debug_log' = Append(debug_log, [at |-> i, kind |-> Decision(i)])
    /\ getbbox_calls' =
          IF Decision(i) \in {"added", "width"}
          THEN Append(getbbox_calls,
                      [at |-> i,
                       text |-> Join(<<word_timings[i + 1].word,
                                       word_timings[i + 2].word>>)])
          ELSE getbbox_calls
    /\ i' = Advance(i)
    /\ UNCHANGED << voicev, args, pc, font, max_text_width, prev_return, mainv >>

\* The loop condition fails: return grouped_captions.
Return ==
    /\ pc = "loop"
    /\ ~LoopCondition
    /\ pc' = "done"
    /\ UNCHANGED << voicev, args, font, max_text_width, i, grouped_captions,
                    caption_words, debug_log, getbbox_calls, prev_return, mainv >>

\* The caller keeps the returned list and calls again with the same
\* arguments in the same environment.
CallAgain ==
    /\ pc = "done"
    /\ prev_return' = << grouped_captions >>
    /\ pc' = "load_font"
    /\ UNCHANGED << voicev, args, font, max_text_width, i, grouped_captions,
                    caption_words, debug_log, getbbox_calls, mainv >>

Next == LoadFont \/ GroupStep \/ Return \/ CallAgain

Spec == Init /\ [][Next]_vars

\* ------------------------------------------------------------ main

\* Defaults of group_words_into_captions, which main does not override.
DefaultPauseThreshold == 6
DefaultMaxDuration == 30

\* The transition parameters the demonstration script documents, in ticks:
\* minimum 0.8 s, maximum 3.0 s, overlap 0.1 s.
MinCaptionDuration == 16
MaxCaptionDuration == 60
OverlapDuration == 2

\* Locals of create_caption_clips and the border_size default of
\* create_text_image.
ClipFontSize == 110
CaptionHeightBase == 120
BorderSize == 8

\* main after transcribe_audio has returned.
MainInit ==
    /\ word_timings \in MainInputs
    /\ transcribed = word_timings
    /\ video_width \in MainVideoWidths
    /\ video_height \in VideoHeights
    /\ max_text_width_ratio \in MainRatios
    /\ comments_start_time \in CommentsStarts
    /\ pause_threshold = DefaultPauseThreshold
    /\ max_duration_per_caption = DefaultMaxDuration
    /\ font_loadable \in BOOLEAN
    /\ measurer \in Measurers
    /\ main_pc = "transcribed"
    /\ pc = "idle"
    /\ font = "none"
    /\ max_text_width = 0
    /\ i = 0
    /\ grouped_captions = <<>>
    /\ caption_words = <<>>
    /\ debug_log = <<>>
    /\ getbbox_calls = <<>>
    /\ prev_return = NoReturn
    /\ caption_rendered_height = 0
    /\ caption_clips = <<>>
    /\ composed = <<>>
    /\ main_log = <<>>
    /\ VoiceConstructed

funcv == << pc, font, max_text_width, i, grouped_captions, caption_words,
            debug_log, getbbox_calls, prev_return >>

\* if not word_timings: log the error and return.
NoWordsReturn ==
    /\ main_pc = "transcribed"
    /\ word_timings = <<>>
    /\ main_log' = Append(main_log, "no_words_transcribed")
    /\ main_pc' = "returned"
    /\ UNCHANGED << voicev, args, funcv, transcribed, comments_start_time, video_height,
                    caption_rendered_height, caption_clips, composed >>

\* [w for w in word_timings if w['start'] >= comments_start_time]
KeepsWord(w) == w.start >= comments_start_time[1]

FilteredWords ==
    IF comments_start_time = <<>> THEN word_timings
    ELSE SelectSeq(word_timings, KeepsWord)

\* The comments_start filter, then the call of group_words_into_captions.
FilterAndCall ==
    /\ main_pc = "transcribed"
    /\ word_timings # <<>>
    /\ word_timings' = FilteredWords
    /\ main_pc' = "segment"
    /\ pc' = "load_font"
    /\ UNCHANGED << voicev, video_width, max_text_width_ratio, pause_threshold,
                    max_duration_per_caption, font_loadable, measurer, font,
                    max_text_width, i, grouped_captions, caption_words,
                    debug_log, getbbox_calls, prev_return, transcribed,
                    comments_start_time, video_height, caption_rendered_height,
                    caption_clips, composed, main_log >>

\* An iteration whose measurement raises something other than
\* AttributeError: nothing catches it, in the function or in main.
MeasureRaises ==
    /\ pc = "loop"
    /\ LoopCondition
    /\ MeasurementRaises
    /\ pc' = "raised"
    /\ main_pc' = "raised"
    /\ UNCHANGED << voicev, args, font, max_text_width, i, grouped_captions,
                    caption_words, debug_log, getbbox_calls, prev_return,
                    transcribed, comments_start_time, video_height,
                    caption_rendered_height, caption_clips, composed, main_log >>

\* Variant: the half font size is left out of the height.
CaptionRenderedHeightNoHalfFont == CaptionHeightBase + (BorderSize * 2)

\* caption_rendered_height = caption_height_base + border_size * 2 + font_size // 2
CaptionRenderedHeight == CaptionHeightBase + (BorderSize * 2) + (ClipFontSize \div 2)

\* The function has returned: create_caption_clips starts.
StartClips ==
    /\ main_pc = "segment"
    /\ pc = "done"
    /\ caption_clips' = <<>>
    /\ caption_rendered_height' = CaptionRenderedHeight
    /\ main_pc' = "clips"
    /\ UNCHANGED << voicev, args, funcv, transcribed, comments_start_time, video_height,
                    composed, main_log >>

\* increased_size of create_text_image, for size = (w, h).
IncreasedSize(size, font_size, border_size) ==
    << size[1] + border_size * 2, size[2] + border_size * 2 + font_size \div 2 >>

\* create_text_image loads the font with no fallback and measures with
\* font.getbbox with no fallback.
TextImageFails == ~font_loadable \/ measurer # "getbbox"

\* The bitmap create_text_image returns.
CreateTextImage(text, size, font_size, border_size) ==
    [ text   |-> text,
      width  |-> IncreasedSize(size, font_size, border_size)[1],
      height |-> IncreasedSize(size, font_size, border_size)[2] ]

\* Variant: the end time is taken for the duration.
ClipDurationToEnd(word) == word.end

\* duration=word['end'] - word['start']
ClipDuration(word) == word.end - word.start

\* (video_height / 2) - (caption_rendered_height / 2), doubled to stay an
\* integer.
YPositionDoubled == video_height - caption_rendered_height

\* The clip one iteration of the for loop appends.
Clip(word) ==
    [ img      |-> CreateTextImage(word.word, << video_width, CaptionHeightBase >>,
                                   ClipFontSize, BorderSize),
      duration |-> ClipDuration(word),
      start    |-> word.start,
      x        |-> "center",
      y2       |-> YPositionDoubled ]

MoreClips == Len(caption_clips) < Len(grouped_captions)

\* One iteration of the for loop of create_caption_clips.
CreateClip ==
    /\ main_pc = "clips"
    /\ MoreClips
    /\ ~TextImageFails
    /\ caption_clips' = Append(caption_clips,
                               Clip(grouped_captions[Len(caption_clips) + 1]))
    /\ UNCHANGED << voicev, args, funcv, main_pc, transcribed, comments_start_time,
                    video_height, caption_rendered_height, composed, main_log >>

\* create_text_image raises; nothing catches it.
TextImageRaises ==
    /\ main_pc = "clips"
    /\ MoreClips
    /\ TextImageFails
    /\ main_pc' = "raised"
    /\ UNCHANGED << voicev, args, funcv, transcribed, comments_start_time, video_height,
                    caption_rendered_height, caption_clips, composed, main_log >>

\* CompositeVideoClip([video] + caption_clips), write_videofile, cleanup.
Compose ==
    /\ main_pc = "clips"
    /\ ~MoreClips
    /\ composed' = Append(composed, caption_clips)
    /\ main_log' = Append(main_log, "completed")
    /\ main_pc' = "finished"
    /\ UNCHANGED << voicev, args, funcv, transcribed, comments_start_time, video_height,
                    caption_rendered_height, caption_clips >>

MainNext ==
    \/ NoWordsReturn
    \/ FilterAndCall
    \/ LoadFont
    \/ GroupStep
    \/ MeasureRaises
    \/ Return
    \/ StartClips
    \/ CreateClip
    \/ TextImageRaises
    \/ Compose

MainSpec == MainInit /\ [][MainNext]_vars

\* ------------------------------------------------------------ elevenlabs

\* Names the account's voice list can hold, and the wrapper's fixed default.
Bella == "Bella"
ApiVoices == {"Adam", "Rachel"}

\* What randomvoice returns: the name of a voice chosen from the account's
\* list, or the default when the list is empty or the lookup raises.
RandomVoiceResults == ApiVoices \cup {Bella}

\* The configured voice name, capitalized.
ConfigVoice == "Rachel"

\* How the requests of one run go: the first request and its save succeed,
\* or the first fails and the fallback succeeds, or both fail.
GenerateOutcomes == {"ok", "fallback_ok", "fallback_fails"}

\* The other variables keep the values construction gave them.
captionv == << args, funcv, mainv >>

VoiceInit ==
    /\ word_timings = <<>>
    /\ video_width = 1000
    /\ max_text_width_ratio = 90
    /\ pause_threshold = DefaultPauseThreshold
    /\ max_duration_per_caption = DefaultMaxDuration
    /\ font_loadable = TRUE
    /\ measurer = "getbbox"
    /\ pc = "load_font"
    /\ font = "none"
    /\ max_text_width = 0
    /\ i = 0
    /\ grouped_captions = <<>>
    /\ caption_words = <<>>
    /\ debug_log = <<>>
    /\ getbbox_calls = 0
    /\ prev_return = NoReturn
    /\ main_pc = "idle"
    /\ transcribed = <<>>
    /\ comments_start_time = <<>>
    /\ video_height = 0
    /\ caption_rendered_height = 0
    /\ caption_clips = <<>>
    /\ composed = <<>>
    /\ main_log = <<>>
    /\ VoiceConstructed

\* The record kept of a call that makes no request.
NoRequests(op, random_voice) ==
    [op |-> op, random |-> random_voice, init_called |-> FALSE,
     picked |-> <<>>, voice |-> <<>>, fallback |-> <<>>,
     client_at_use |-> <<>>, raised |-> FALSE, cache_after |-> current_voice]

\* run's first test: the client has not been made yet.
NeedsInit == ~client_ready

NeedsNewVoiceAlways == TRUE

\* The random branch's test: no voice is cached.
NeedsNewVoice == current_voice = <<>>

\* self.current_voice once the branch of run has been taken: the random
\* branch fills an empty cache with what randomvoice returned and otherwise
\* leaves it, the configured branch empties it.
CacheAfterBranch(random_voice, chosen) ==
    IF random_voice
    THEN IF NeedsNewVoice THEN <<chosen>> ELSE current_voice
    ELSE <<>>

\* The voice named in the first request.
RequestedVoice(random_voice, chosen) ==
    IF random_voice THEN CacheAfterBranch(random_voice, chosen)[1]
    ELSE ConfigVoice

\* run(text, filepath, random_voice).  initialize raises out of run when the
\* key is missing or the client cannot be made; otherwise the branch is
\* taken, the voice is requested, and a failure of the request or of the
\* save is answered by one request with the default voice, whose failure is
\* raised.
Run(random_voice) ==
    /\ Len(history) < MaxCalls
    /\ \E init_ok \in BOOLEAN, chosen \in RandomVoiceResults,
          outcome \in GenerateOutcomes :
          IF NeedsInit /\ ~init_ok
          THEN /\ history' = Append(history,
                      [NoRequests("run", random_voice)
                           EXCEPT !.init_called = TRUE, !.raised = TRUE])
               /\ UNCHANGED << client_ready, current_voice >>
          ELSE /\ client_ready' = (client_ready \/ NeedsInit)
               /\ current_voice' = CacheAfterBranch(random_voice, chosen)
               /\ history' = Append(history,
                      [op |-> "run",
                       random |-> random_voice,
                       init_called |-> NeedsInit,
                       picked |-> IF random_voice /\ NeedsNewVoice
                                  THEN <<chosen>> ELSE <<>>,
                       voice |-> <<RequestedVoice(random_voice, chosen)>>,
                       fallback |-> IF outcome = "ok" THEN <<>>
                                    ELSE <<Bella>>,
                       client_at_use |-> <<client_ready \/ NeedsInit>>,
                       raised |-> (outcome = "fallback_fails"),
                       cache_after |-> CacheAfterBranch(random_voice, chosen)])
    /\ UNCHANGED captionv

RunRandom == Run(TRUE)

RunConfigured == Run(FALSE)

\* reset_voice_cache().
ResetVoiceCache ==
    /\ Len(history) < MaxCalls
    /\ current_voice' = <<>>
    /\ history' = Append(history,
           [NoRequests("reset", FALSE) EXCEPT !.cache_after = <<>>])
    /\ UNCHANGED << client_ready, captionv >>

VoiceNext ==
    \/ RunRandom
    \/ RunConfigured
    \/ ResetVoiceCache

VoiceSpec == VoiceInit /\ [][VoiceNext]_vars

\* ------------------------------------------------------------ properties

\* A caption text split back into words at its single spaces, as
\* text.split(" ") does.
RECURSIVE SplitFrom(_, _, _)
SplitFrom(text, k, cur) ==
    IF k > Len(text) THEN <<cur>>
    ELSE IF text[k] = SPACE THEN <<cur>> \o SplitFrom(text, k + 1, <<>>)
    ELSE SplitFrom(text, k + 1, Append(cur, text[k]))

Split(text) == SplitFrom(text, 1, <<>>)

InputWords == [k \in 1..Len(word_timings) |-> word_timings[k].word]

\* The words of captions 1..n, split back out of the caption texts.
RECURSIVE SplitTexts(_, _)
SplitTexts(caps, n) ==
    IF n = 0 THEN <<>> ELSE SplitTexts(caps, n - 1) \o Split(caps[n].word)

\* The word records of groups 1..n, in order.
RECURSIVE Flatten(_, _)
Flatten(groups, n) ==
    IF n = 0 THEN <<>> ELSE Flatten(groups, n - 1) \o groups[n]

Running == pc \in {"loop", "done"}

\* Whether the joined text of words a and b is wider than the limit, by the
\* font the function holds.
TooWide(text) == TextWidth(font, text) * 100 > video_width * max_text_width_ratio

\* C1 (partition): the words split out of the caption texts emitted so far,
\* concatenated in order, are exactly the input words before the cursor, and
\* so are the word records grouped so far; at the return the cursor is the
\* input length, so the output reproduces the whole input with no word
\* dropped, duplicated or reordered.
C1_Partition ==
    Running =>
        /\ i <= Len(word_timings)
        /\ Len(caption_words) = Len(grouped_captions)
        /\ SplitTexts(grouped_captions, Len(grouped_captions))
              = SubSeq(InputWords, 1, i)
        /\ Flatten(caption_words, Len(caption_words)) = SubSeq(word_timings, 1, i)
        /\ (pc = "done" => i = Len(word_timings))

C1_Witness ==
    /\ pc = "done"
    /\ Len(word_timings) = 3
    /\ Len(grouped_captions) = 2
    /\ Len(caption_words[1]) = 1

\* C2 (group size): every emitted caption holds exactly 1 or 2 words, both by
\* its word list and by its text, and they are consecutive input words.
C2_GroupSize ==
    Running =>
        \A n \in 1..Len(grouped_captions) :
            /\ Len(caption_words[n]) \in {1, 2}
            /\ Len(Split(grouped_captions[n].word)) = Len(caption_words[n])
            /\ caption_words[n] =
                  SubSeq(word_timings, debug_log[n].at + 1,
                         debug_log[n].at + Len(caption_words[n]))

\* A third word would have passed the pause, duration and width tests
\* against the two-word group, and is still left out of it.
C2_Witness ==
    /\ pc = "done"
    /\ Len(word_timings) = 3
    /\ Len(caption_words[1]) = 2
    /\ word_timings[3].start - word_timings[2].end <= pause_threshold
    /\ word_timings[3].end - word_timings[1].start <= max_duration_per_caption
    /\ ~TooWide(word_timings[1].word \o <<SPACE>> \o word_timings[2].word
                    \o <<SPACE>> \o word_timings[3].word)

\* C3 (pause): in no two-word group does the second word start more than
\* pause_threshold after the first word ends.
C3_PauseRespect ==
    Running =>
        \A n \in 1..Len(caption_words) :
            Len(caption_words[n]) = 2 =>
                ~(caption_words[n][2].start - caption_words[n][1].end
                      > pause_threshold)

\* A two-word group whose gap is exactly the threshold.
C3_Witness ==
    /\ pc = "done"
    /\ \E n \in 1..Len(caption_words) :
          /\ Len(caption_words[n]) = 2
          /\ caption_words[n][2].start - caption_words[n][1].end = pause_threshold

\* C4 (duration): every two-word group spans at most
\* max_duration_per_caption from its start to its end, where the start is the
\* first word's start and the end the second word's end.
C4_DurationRespect ==
    Running =>
        \A n \in 1..Len(grouped_captions) :
            Len(caption_words[n]) = 2 =>
                /\ grouped_captions[n].end - grouped_captions[n].start
                      <= max_duration_per_caption
                /\ caption_words[n][2].end - caption_words[n][1].start
                      <= max_duration_per_caption

\* A two-word group that spans exactly the limit.
C4_Witness ==
    /\ pc = "done"
    /\ \E n \in 1..Len(grouped_captions) :
          /\ Len(caption_words[n]) = 2
          /\ grouped_captions[n].end - grouped_captions[n].start
                = max_duration_per_caption

\* C5 (width): the measured width of every two-word caption's text is at
\* most video_width * max_text_width_ratio.
C5_WidthRespect ==
    Running =>
        \A n \in 1..Len(grouped_captions) :
            Len(caption_words[n]) = 2 =>
                TextWidth(font, grouped_captions[n].word) * 100
                    <= video_width * max_text_width_ratio

\* A two-word group under a limit that some other pair of words exceeds.
C5_Witness ==
    /\ pc = "done"
    /\ font = "truetype"
    /\ \E n \in 1..Len(grouped_captions) : Len(caption_words[n]) = 2
    /\ \E m \in 1..Len(debug_log) : debug_log[m].kind = "width"

\* The break the join rule prescribes at cursor p when a word follows:
\* pause first, then duration, then width; "added" when none fires.
C6_Expected(p) ==
    LET cur == word_timings[p + 1]
        nxt == word_timings[p + 2]
    IN  IF nxt.start - cur.end > pause_threshold THEN "pause"
        ELSE IF nxt.end - cur.start > max_duration_per_caption THEN "duration"
        ELSE IF TooWide(cur.word \o <<SPACE>> \o nxt.word) THEN "width"
        ELSE "added"

\* C6 (join rule): at every cursor position with a following word the
\* decision is the first break that fires in the order pause, duration,
\* width; the next word joins if and only if none fires; the joined text is
\* measured for the decision exactly when neither the pause nor the duration
\* break fired; and Scenario A with the defaults and enough width gives
\* ('an gero', 0.0, 0.45), ('ed', 3.00, 3.20).
C6_JoinRule ==
    Running =>
        /\ Len(debug_log) = Len(caption_words)
        /\ \A n \in 1..Len(debug_log) :
              LET p == debug_log[n].at
              IN  IF p + 1 < Len(word_timings)
                  THEN /\ debug_log[n].kind = C6_Expected(p)
                       /\ Len(caption_words[n]) = 2 <=> C6_Expected(p) = "added"
                       /\ (\E c \in 1..Len(getbbox_calls) : getbbox_calls[c].at = p)
                             <=> C6_Expected(p) \in {"added", "width"}
                  ELSE /\ debug_log[n].kind = "last"
                       /\ Len(caption_words[n]) = 1
                       /\ ~\E c \in 1..Len(getbbox_calls) : getbbox_calls[c].at = p
        /\ \A c \in 1..Len(getbbox_calls) :
              getbbox_calls[c].text =
                  word_timings[getbbox_calls[c].at + 1].word \o <<SPACE>>
                      \o word_timings[getbbox_calls[c].at + 2].word
        /\ ( /\ pc = "done"
             /\ word_timings = ScenarioA
             /\ pause_threshold = 6
             /\ max_duration_per_caption = 30
             /\ ~TooWide(an \o <<SPACE>> \o gero) )
           => grouped_captions =
                 << [word |-> an \o <<SPACE>> \o gero, start |-> 0, end |-> 9],
                    [word |-> ed, start |-> 60, end |-> 64] >>

\* Scenario A has run to its return with the defaults and enough width.
C6_Witness ==
    /\ pc = "done"
    /\ word_timings = ScenarioA
    /\ pause_threshold = 6
    /\ max_duration_per_caption = 30
    /\ font = "truetype"
    /\ ~TooWide(an \o <<SPACE>> \o gero)
    /\ Len(grouped_captions) = 2

\* C7 (fields): a caption's text is its words joined by exactly one space,
\* its start is its first word's start and its end is its last word's end.
C7_GroupFields ==
    Running =>
        \A n \in 1..Len(grouped_captions) :
            LET ws == caption_words[n]
                g  == grouped_captions[n]
            IN  /\ g.start = ws[1].start
                /\ g.end = ws[Len(ws)].end
                /\ g.word = IF Len(ws) = 1 THEN ws[1].word
                            ELSE ws[1].word \o <<SPACE>> \o ws[2].word

\* A one-word and a two-word caption in one output, the second word of the
\* pair ending later than the first.
C7_Witness ==
    /\ pc = "done"
    /\ \E n \in 1..Len(caption_words) : Len(caption_words[n]) = 1
    /\ \E n \in 1..Len(caption_words) :
          /\ Len(caption_words[n]) = 2
          /\ caption_words[n][2].end > caption_words[n][1].end

\* C8 (empty input): with no words the loop body is never entered, nothing
\* is emitted, and the call returns the empty list.
C8_EmptyInput ==
    word_timings = <<>> =>
        /\ pc = "loop" => ~LoopCondition
        /\ Running => /\ grouped_captions = <<>>
                      /\ debug_log = <<>>
                      /\ i = 0

C8_Witness ==
    /\ word_timings = <<>>
    /\ pc = "done"
    /\ grouped_captions = <<>>

\* C9 (lone over-wide word): a word wider than the limit on its own is never
\* joined to another word; once the cursor has passed it, it is the whole of
\* one caption, with its own text, start and end. Scenario B (2000 px word,
\* frame 1000, ratio 0.9) returns that one word as one caption.
C9_LoneWideWord ==
    Running =>
        /\ \A k \in 1..i :
              TooWide(word_timings[k].word) =>
                  \E n \in 1..Len(grouped_captions) :
                      /\ caption_words[n] = << word_timings[k] >>
                      /\ debug_log[n].at = k - 1
                      /\ grouped_captions[n] =
                            [ word  |-> word_timings[k].word,
                              start |-> word_timings[k].start,
                              end   |-> word_timings[k].end ]
        /\ ( /\ pc = "done"
             /\ word_timings = ScenarioB )
           => grouped_captions = << [word |-> wideWord, start |-> 0, end |-> 4] >>

\* Scenario B as stated: the word measures 2000 px against a limit of 900.
C9_Witness ==
    /\ pc = "done"
    /\ word_timings = ScenarioB
    /\ video_width = 1000
    /\ max_text_width_ratio = 90
    /\ TextWidth(font, wideWord) = 2000
    /\ Len(grouped_captions) = 1

\* C10 (determinism): a call on the same words, configuration and font as
\* the call before it returns the same list; nothing of the earlier call
\* shows in the later result.
C10_Determinism ==
    (pc = "done" /\ Len(prev_return) = 1) => grouped_captions = prev_return[1]

C10_Witness ==
    /\ pc = "done"
    /\ Len(prev_return) = 1
    /\ Len(grouped_captions) >= 2

\* ------------------------------------------------------------ properties of main

\* C11 (font-load failure is recoverable at every stage): when the
\* configured font cannot be loaded the segmenter measures with the default
\* font, and the run is never ended by an exception: it goes on through
\* caption rendering to composition. (Measuring itself works here, so the
\* font is the only failure in play.)
C11_FontFallbackEverywhere ==
    (~font_loadable /\ measurer = "getbbox") =>
        /\ pc \in {"loop", "done"} => font = "default"
        /\ main_pc # "raised"

\* C12 (no-captions short-circuit): once the word list that reaches
\* segmentation is empty, whether the transcription was empty or the
\* comments_start filter removed every word, nothing is ever handed to the
\* composer and the run reports that there are no captions.
C12_NoCaptionsShortCircuit ==
    (main_pc \notin {"idle", "transcribed"} /\ word_timings = <<>>) =>
        /\ composed = <<>>
        /\ main_pc # "finished"
        /\ main_pc = "returned" => main_log = << "no_words_transcribed" >>

\* C13 (invalid configuration is rejected up front): with
\* max_text_width_ratio outside (0, 1] the run is refused before any work:
\* no word is segmented, no clip is made, nothing is composed.
C13_InvalidConfigRejected ==
    (main_pc # "idle" /\ max_text_width_ratio \notin 1..100) =>
        /\ grouped_captions = <<>>
        /\ caption_clips = <<>>
        /\ composed = <<>>

\* C14 (canvas size): every bitmap rendered in the pipeline is as wide as
\* the measured width of its caption's text plus twice the border, and
\* base_height + 2 * border + font_size / 2 high.
C14_CanvasSize ==
    \A n \in 1..Len(caption_clips) :
        /\ caption_clips[n].img.width
              = TextWidth("truetype", caption_clips[n].img.text) + 2 * BorderSize
        /\ caption_clips[n].img.height
              = CaptionHeightBase + 2 * BorderSize + ClipFontSize \div 2

\* C15 (frame placement): every clip is centred horizontally and put at
\* y = frame_height / 2 - rendered_height / 2, rendered_height being the
\* height of the bitmap create_text_image made for it; so every clip of a
\* run has the same placement.
C15_FramePlacement ==
    \A n \in 1..Len(caption_clips) :
        /\ caption_clips[n].x = "center"
        /\ caption_clips[n].y2 = video_height - caption_clips[n].img.height
        /\ caption_clips[n].y2 = caption_clips[1].y2

C15_Witness ==
    /\ main_pc = "finished"
    /\ Len(caption_clips) >= 2
    /\ caption_clips[1].img.text # caption_clips[2].img.text

\* C16 (duration clamp): every clip stays on screen between the minimum and
\* the maximum caption duration, except a clip shorter than the minimum
\* whose stretching to the minimum would run more than the overlap into the
\* next caption; and clips keep the order of the groups.
C16_DurationClamp ==
    \A n \in 1..Len(caption_clips) :
        LET d == caption_clips[n].duration
        IN  /\ caption_clips[n].start = grouped_captions[n].start
            /\ \/ (MinCaptionDuration <= d /\ d <= MaxCaptionDuration)
               \/ /\ d < MinCaptionDuration
                  /\ n < Len(grouped_captions)
                  /\ caption_clips[n].start + MinCaptionDuration
                        - grouped_captions[n + 1].start > OverlapDuration

\* C17 (one clip per group): when the run has ended after segmentation,
\* there is exactly one clip per group, in the groups' order, and the clip
\* list was handed to the composer exactly once. (Measuring works here.)
C17_OneClipPerGroup ==
    (measurer = "getbbox" /\ pc = "done" /\ main_pc \in {"finished", "raised"}) =>
        /\ Len(caption_clips) = Len(grouped_captions)
        /\ \A n \in 1..Len(caption_clips) :
              /\ caption_clips[n].img.text = grouped_captions[n].word
              /\ caption_clips[n].start = grouped_captions[n].start
        /\ composed = << caption_clips >>

\* C18 as stated (measurement failure is recoverable): whatever way
\* measuring fails, segmentation is not ended by it.
C18_MeasurementNeverAborts ==
    measurer # "getbbox" => pc # "raised"

\* C18 as amended: when font.getbbox is missing, the width font.getsize
\* gives decides each join, a group is emitted for every word reached and
\* the function returns having consumed the input; when measuring raises
\* anything else, the first iteration ends the function with nothing
\* emitted.
C18_LegacyFallback ==
    /\ measurer = "getsize" =>
          /\ pc # "raised"
          /\ pc \in {"loop", "done"} =>
                /\ Flatten(caption_words, Len(caption_words))
                      = SubSeq(word_timings, 1, i)
                /\ Len(grouped_captions) = Len(debug_log)
                /\ \A n \in 1..Len(debug_log) :
                      debug_log[n].kind \in {"added", "width"} =>
                          ( debug_log[n].kind = "added" <=>
                            ( TextWidth(font, word_timings[debug_log[n].at + 1].word
                                                \o <<SPACE>>
                                                \o word_timings[debug_log[n].at + 2].word)
                                + LeftBearing(font) ) * 100
                              <= video_width * max_text_width_ratio )
          /\ pc = "done" => i = Len(word_timings)
    /\ measurer = "raises" =>
          /\ pc \in {"loop", "raised"} => grouped_captions = <<>>
          /\ pc # "done" \/ word_timings = <<>>

C18_Witness ==
    /\ measurer = "getsize"
    /\ pc = "done"
    /\ \E n \in 1..Len(debug_log) : debug_log[n].kind = "added"
    /\ \E n \in 1..Len(debug_log) : debug_log[n].kind = "width"

\* C19 (termination of the pass): the cursor starts at 0; every iteration
\* moves it up by the size, 1 or 2, of the group it emits; it never passes
\* the input length n; while it is below n an iteration is possible and at
\* n the return is; and at the return the cursor is n, after at most n
\* iterations that emitted between ceil(n / 2) and n groups.
C19_Termination ==
    /\ [][ (pc = "load_font" /\ pc' = "loop") => i' = 0 ]_vars
    /\ [][ (pc = "loop" /\ pc' = "loop") =>
              /\ Len(debug_log') = Len(debug_log) + 1
              /\ i' = i + Len(caption_words'[Len(caption_words')])
              /\ i' - i \in {1, 2}
              /\ i' <= Len(word_timings) ]_vars
    /\ [][ (pc = "loop" /\ pc' = "done") =>
              /\ i = Len(word_timings)
              /\ i' = i
              /\ Len(debug_log) <= Len(word_timings)
              /\ Len(grouped_captions) = Len(debug_log)
              /\ 2 * Len(grouped_captions) >= Len(word_timings)
              /\ Len(grouped_captions) <= Len(word_timings) ]_vars
    /\ [](pc = "loop" =>
              /\ i <= Len(word_timings)
              /\ ENABLED (GroupStep \/ Return))

C19_Witness ==
    /\ pc = "done"
    /\ Len(word_timings) = 3
    /\ Len(grouped_captions) = 2
    /\ Len(caption_words[1]) = 2
    /\ i = 3

\* Each word ends no earlier than it starts and no later than the next
\* word starts.
Chronological(ws) ==
    /\ \A k \in 1..Len(ws) : ws[k].start <= ws[k].end
    /\ \A k \in 1..(Len(ws) - 1) : ws[k].end <= ws[k + 1].start

RandomRun(k) == history[k].op = "run" /\ history[k].random

\* Call k got past initialize and made its first request.
Requested(k) == history[k].voice # <<>>

\* Calls j < k are random runs with nothing but random runs between them.
SameStretch(j, k) ==
    /\ j < k
    /\ \A m \in j..k : RandomRun(m)

\* The voices call k named in its requests, the fallback's included.
Requests(k) ==
    {history[k].voice[n] : n \in 1..Len(history[k].voice)}
        \cup {history[k].fallback[n] : n \in 1..Len(history[k].fallback)}

\* C21 as stated (voice cache): any two random runs of one stretch name
\* one and the same voice in every request they make.
C21_SameVoiceRequested ==
    \A j \in 1..Len(history) : \A k \in 1..Len(history) :
        (SameStretch(j, k) /\ Requested(j) /\ Requested(k)) =>
            Cardinality(Requests(j) \cup Requests(k)) <= 1

\* C21 (voice cache, amended): the random runs of one stretch name the same
\* cached voice in their first request and invoke randomvoice at most once,
\* in the first of them that gets past initialize; a run whose first
\* request fails makes one more request, with the default voice "Bella",
\* and leaves the cache as it was; a configured run or a reset leaves the
\* cache empty, so the next random run to get past initialize selects
\* anew; and every request is made with the client initialized.
C21_VoiceCache ==
    /\ \A j \in 1..Len(history) : \A k \in 1..Len(history) :
          (SameStretch(j, k) /\ Requested(j) /\ Requested(k)) =>
              /\ history[j].voice = history[k].voice
              /\ history[k].picked = <<>>
    /\ \A k \in 1..Len(history) :
          (RandomRun(k) /\ Requested(k)) =>
              /\ history[k].cache_after = history[k].voice
              /\ (history[k].picked = <<>>) <=>
                    (\E j \in 1..Len(history) :
                        SameStretch(j, k) /\ Requested(j))
              /\ history[k].picked # <<>> =>
                    history[k].picked = history[k].voice
    /\ \A k \in 1..Len(history) :
          history[k].fallback # <<>> => history[k].fallback = <<Bella>>
    /\ \A k \in 1..Len(history) :
          ~RandomRun(k) =>
              /\ history[k].cache_after = <<>>
              /\ history[k].picked = <<>>
    /\ \A k \in 1..Len(history) :
          Requests(k) # {} => history[k].client_at_use = <<TRUE>>
    /\ current_voice # <<>> => client_ready
    /\ Len(history) > 0 =>
          current_voice = history[Len(history)].cache_after

C21_Witness ==
    /\ Len(history) = 4
    /\ RandomRun(1) /\ history[1].init_called
    /\ history[1].picked = <<"Adam">> /\ history[1].fallback = <<>>
    /\ RandomRun(2) /\ history[2].picked = <<>>
    /\ history[2].voice = <<"Adam">> /\ history[2].fallback = <<Bella>>
    /\ history[3].op = "reset"
    /\ RandomRun(4) /\ history[4].picked = <<"Rachel">>
    /\ current_voice = <<"Rachel">>

====
